---- MODULE Spec2Model ----
(***************************************************************************)
(* Task routes of the Task Manager API (routes/tasks.js): six handlers     *)
(* over a per-user Task collection kept in a document store.               *)
(*                                                                         *)
(* JavaScript values are tagged records, so that undefined, null, strings, *)
(* booleans and dates stay distinct.  Strings that the handlers trim are   *)
(* sequences of one-character strings.                                     *)
(***************************************************************************)
EXTENDS Integers, Sequences, FiniteSets, TLC

\* Number of Tasks that are ever created in a run (identifiers 1..MaxTasks).
MaxTasks == 2

\* Number of delete, update and toggle requests that run concurrently in a run.
MaxRequests == 3

\* Identifiers a request can name: every identifier the store can assign.
TaskIds == 1..MaxTasks

-----------------------------------------------------------------------------
\* JavaScript values

Undef == [t |-> "undefined"]
Null == [t |-> "null"]
Str(s) == [t |-> "string", s |-> s]
Bool(b) == [t |-> "boolean", b |-> b]
DateOf(s) == [t |-> "date", at |-> s]
InvalidDate == [t |-> "date", at |-> <<>>]

\* JavaScript truthiness of a value (the handlers' `if (x)` and `!x`).
Truthy(v) ==
  CASE v.t = "undefined" -> FALSE
    [] v.t = "null" -> FALSE
    [] v.t = "string" -> Len(v.s) > 0
    [] v.t = "boolean" -> v.b
    [] OTHER -> TRUE

RECURSIVE TrimStart(_)
TrimStart(s) == IF s # <<>> /\ Head(s) = " " THEN TrimStart(Tail(s)) ELSE s

RECURSIVE TrimEnd(_)
TrimEnd(s) ==
  IF s # <<>> /\ s[Len(s)] = " " THEN TrimEnd(SubSeq(s, 1, Len(s) - 1)) ELSE s

\* String.prototype.trim on the characters of a string.
Trim(s) == TrimEnd(TrimStart(s))

\* x.trim() on a JavaScript value: a TypeError unless x is a string.
CanTrim(v) == v.t = "string"

Digits == {"0", "1", "2", "3", "4", "5", "6", "7", "8", "9"}

\* new Date(x) for a string x: a date when x is a year, Invalid Date otherwise.
NewDate(v) ==
  IF v.t = "string" /\ v.s # <<>> /\ \A i \in 1..Len(v.s) : v.s[i] \in Digits
  THEN DateOf(v.s)
  ELSE InvalidDate

\* Identities the auth middleware can resolve (req.user.id).
U1 == Str(<<"u", "1">>)
U2 == Str(<<"u", "2">>)
Users == {U1, U2}

-----------------------------------------------------------------------------
\* Strings the handlers and the schema compare against

ALL == Str(<<"a", "l", "l">>)
TRUESTR == Str(<<"t", "r", "u", "e">>)
FALSESTR == Str(<<"f", "a", "l", "s", "e">>)
ASC == Str(<<"a", "s", "c">>)
DESC == Str(<<"d", "e", "s", "c">>)
CREATEDAT == Str(<<"c", "r", "e", "a", "t", "e", "d", "A", "t">>)
COMPLETED == Str(<<"c", "o", "m", "p", "l", "e", "t", "e", "d">>)
LOW == Str(<<"l", "o", "w">>)
MEDIUM == Str(<<"m", "e", "d", "i", "u", "m">>)
HIGH == Str(<<"h", "i", "g", "h">>)
URGENT == Str(<<"u", "r", "g", "e", "n", "t">>)

-----------------------------------------------------------------------------
\* The Task model (models/Task.js) and the store operations the routes call

\* Values of the priority enumeration, and its default.
Priorities == {LOW, MEDIUM, HIGH}
DefaultPriority == MEDIUM

\* Mutant of ValidTask: a schema whose title is not required.
ValidTaskTitleOptional(doc) ==
  /\ doc.title.t = "string"
  /\ doc.description.t \in {"undefined", "string"}
  /\ doc.dueDate.t \in {"undefined", "null", "date"} /\ doc.dueDate # InvalidDate
  /\ doc.priority \in Priorities
  /\ doc.completed.t = "boolean"

\* Schema validation run by save(): title a non-empty string, description an
\* optional string, dueDate unset or a valid date, priority one of the
\* enumeration, completed a boolean.
ValidTask(doc) ==
  /\ doc.title.t = "string" /\ Trim(doc.title.s) # <<>>
  /\ doc.description.t \in {"undefined", "string"}
  /\ doc.dueDate.t \in {"undefined", "null", "date"} /\ doc.dueDate # InvalidDate
  /\ doc.priority \in Priorities
  /\ doc.completed.t = "boolean"

\* new Task(taskData): the fields given, the schema's defaults for the rest.
NewTask(taskData, id) ==
  [ _id |-> id,
    title |-> taskData.title,
    description |-> taskData.description,
    dueDate |-> taskData.dueDate,
    priority |-> IF taskData.priority = Undef THEN DefaultPriority ELSE taskData.priority,
    completed |-> Bool(FALSE),
    user |-> taskData.user,
    createdAt |-> id ]

\* Mutant of FindOne: the lookup by identifier alone, the owner left out of
\* the filter.
FindOneAnyUser(store, id, caller) ==
  IF id \in DOMAIN store THEN store[id] ELSE Null

\* Task.findOne({ _id: id, user: caller }): the document, or Null.
FindOne(store, id, caller) ==
  IF id \in DOMAIN store /\ store[id].user = caller THEN store[id] ELSE Null

\* The store without document id.
Remove(store, id) == [i \in (DOMAIN store) \ {id} |-> store[i]]

\* The store with document doc written under its identifier.
Put(store, doc) ==
  [i \in (DOMAIN store) \cup {doc._id} |-> IF i = doc._id THEN doc ELSE store[i]]

\* Task.find(filter): the identifiers of the documents equal to the filter on
\* every field the filter sets (a field the filter leaves Undef is not compared).
Find(store, filter) ==
  { i \in DOMAIN store :
      /\ store[i].user = filter.user
      /\ filter.priority # Undef => store[i].priority = filter.priority
      /\ filter.completed # Undef => store[i].completed = filter.completed }

\* The paths save() writes for a loaded document: those whose value differs
\* from the value loaded; every other path keeps what the store holds now.
Merge(cur, loaded, doc) ==
  [f \in DOMAIN cur |-> IF doc[f] # loaded[f] THEN doc[f] ELSE cur[f]]

\* Task.find(filter).sort({ [sortBy]: sortOrder }): the sort key of a document.
SortKey(doc, sortBy) ==
  CASE sortBy = CREATEDAT -> doc.createdAt
    [] sortBy = COMPLETED -> IF doc.completed = Bool(TRUE) THEN 1 ELSE 0
    [] OTHER -> 0

\* Every ordering of the documents ids that the sort can return: keys in the
\* order asked for, documents of equal key in any order.
Sorted(store, ids, sortBy, sortOrder) ==
  { s \in [1..Cardinality(ids) -> ids] :
      /\ \A i, j \in DOMAIN s : i # j => s[i] # s[j]
      /\ \A i, j \in DOMAIN s :
           i < j => sortOrder * SortKey(store[s[i]], sortBy)
                      <= sortOrder * SortKey(store[s[j]], sortBy) }

-----------------------------------------------------------------------------
\* Responses

\* What the global error handler answers for an error passed to next().
ErrorResponse == [status |-> 500, success |-> FALSE, message |-> "Server Error"]

NotFoundResponse == [status |-> 404, success |-> FALSE, message |-> "Task not found"]

ValidationResponse ==
  [status |-> 400, success |-> FALSE, message |-> "Task title is required"]

-----------------------------------------------------------------------------
\* The handlers, as functions of the store and the request.  Each yields the
\* store it leaves, the next identifier, and the response.

Outcome(store, next, res) == [tasks |-> store, nextId |-> next, res |-> res]

\* Mutant of ListFilter: the completed parameter put in the filter as the
\* string it arrives as, not parsed.
ListFilterUnparsed(caller, query) ==
  [ user |-> caller,
    priority |-> IF Truthy(query.priority) /\ query.priority # ALL
                 THEN query.priority ELSE Undef,
    completed |-> IF query.completed # Undef /\ query.completed # ALL
                  THEN query.completed ELSE Undef ]

\* GET /tasks: the filter built from the query.
ListFilter(caller, query) ==
  [ user |-> caller,
    priority |-> IF Truthy(query.priority) /\ query.priority # ALL
                 THEN query.priority ELSE Undef,
    completed |-> IF query.completed # Undef /\ query.completed # ALL
                  THEN Bool(query.completed = TRUESTR) ELSE Undef ]

\* GET /tasks: every response the handler can give (one per admissible order).
ListTasks(store, caller, query) ==
  LET sortBy == IF query.sortBy = Undef THEN CREATEDAT ELSE query.sortBy
      order == IF query.order = Undef THEN DESC ELSE query.order
      sortOrder == IF order = ASC THEN 1 ELSE -1
      ids == Find(store, ListFilter(caller, query))
  IN { [status |-> 200, success |-> TRUE, count |-> Len(s),
        data |-> [i \in DOMAIN s |-> store[s[i]]]] :
       s \in Sorted(store, ids, sortBy, sortOrder) }

\* GET /tasks/:id
GetTask(store, caller, id) ==
  LET task == FindOne(store, id, caller)
  IN IF task = Null
     THEN NotFoundResponse
     ELSE [status |-> 200, success |-> TRUE, data |-> task]

\* Mutant of TaskData: the owner taken from the body when the body names one.
TaskDataFromBody(caller, body) ==
  [ title |-> Str(Trim(body.title.s)),
    user |-> IF body.user # Undef THEN body.user ELSE caller,
    description |-> IF Truthy(body.description)
                    THEN Str(Trim(body.description.s)) ELSE Undef,
    dueDate |-> IF Truthy(body.dueDate) THEN NewDate(body.dueDate) ELSE Undef,
    priority |-> IF Truthy(body.priority) THEN body.priority ELSE Undef ]

\* POST /tasks: the taskData object, once the title has passed validation.
TaskData(caller, body) ==
  [ title |-> Str(Trim(body.title.s)),
    user |-> caller,
    description |-> IF Truthy(body.description)
                    THEN Str(Trim(body.description.s)) ELSE Undef,
    dueDate |-> IF Truthy(body.dueDate) THEN NewDate(body.dueDate) ELSE Undef,
    priority |-> IF Truthy(body.priority) THEN body.priority ELSE Undef ]

\* Mutant of CreateTask: the validation tests the title for presence only, not
\* for being empty once trimmed.
CreateTaskUntrimmedCheck(store, next, caller, body) ==
  IF ~Truthy(body.title)
  THEN Outcome(store, next, ValidationResponse)
  ELSE IF ~CanTrim(body.title)
  THEN Outcome(store, next, ErrorResponse)
  ELSE IF Truthy(body.description) /\ ~CanTrim(body.description)
  THEN Outcome(store, next, ErrorResponse)
  ELSE LET task == NewTask(TaskData(caller, body), next)
       IN IF ValidTask(task)
          THEN Outcome(Put(store, task), next + 1,
                       [status |-> 201, success |-> TRUE,
                        message |-> "Task created successfully", data |-> task])
          ELSE Outcome(store, next, ErrorResponse)

\* POST /tasks
CreateTask(store, next, caller, body) ==
  IF ~Truthy(body.title)
  THEN Outcome(store, next, ValidationResponse)
  ELSE IF ~CanTrim(body.title)
  THEN Outcome(store, next, ErrorResponse)
  ELSE IF Trim(body.title.s) = <<>>
  THEN Outcome(store, next, ValidationResponse)
  ELSE IF Truthy(body.description) /\ ~CanTrim(body.description)
  THEN Outcome(store, next, ErrorResponse)
  ELSE LET task == NewTask(TaskData(caller, body), next)
       IN IF ValidTask(task)
          THEN Outcome(Put(store, task), next + 1,
                       [status |-> 201, success |-> TRUE,
                        message |-> "Task created successfully", data |-> task])
          ELSE Outcome(store, next, ErrorResponse)

\* Mutant of UpdateFields: description, dueDate and completed assigned only
\* when truthy, the way the create handler tests its optional fields.
UpdateFieldsIfTruthy(task, body) ==
  IF body.title # Undef /\ ~CanTrim(body.title)
  THEN [ok |-> FALSE, task |-> task]
  ELSE IF Truthy(body.description) /\ ~CanTrim(body.description)
  THEN [ok |-> FALSE, task |-> task]
  ELSE [ok |-> TRUE,
        task |->
          [task EXCEPT
             !.title = IF body.title # Undef THEN Str(Trim(body.title.s)) ELSE @,
             !.description = IF Truthy(body.description)
                             THEN Str(Trim(body.description.s)) ELSE @,
             !.dueDate = IF Truthy(body.dueDate) THEN NewDate(body.dueDate) ELSE @,
             !.priority = IF body.priority # Undef THEN body.priority ELSE @,
             !.completed = IF Truthy(body.completed) THEN body.completed ELSE @]]

\* PUT /tasks/:id, lines 121-126: the assignments made to the loaded document.
\* ok is FALSE when a trim() throws (a present title or description that is no
\* string); nothing is saved then.
UpdateFields(task, body) ==
  IF body.title # Undef /\ ~CanTrim(body.title)
  THEN [ok |-> FALSE, task |-> task]
  ELSE IF body.description # Undef /\ ~CanTrim(body.description)
  THEN [ok |-> FALSE, task |-> task]
  ELSE [ok |-> TRUE,
        task |->
          [task EXCEPT
             !.title = IF body.title # Undef THEN Str(Trim(body.title.s)) ELSE @,
             !.description = IF body.description # Undef
                             THEN Str(Trim(body.description.s)) ELSE @,
             !.dueDate = IF body.dueDate # Undef
                         THEN (IF Truthy(body.dueDate)
                               THEN NewDate(body.dueDate) ELSE Null)
                         ELSE @,
             !.priority = IF body.priority # Undef THEN body.priority ELSE @,
             !.completed = IF body.completed # Undef THEN body.completed ELSE @]]

\* Mutant of SaveLoaded: a save that inserts the document when the store no
\* longer holds it.
SaveLoadedUpserts(store, loaded, doc) ==
  IF loaded._id \in DOMAIN store
  THEN Put(store, Merge(store[loaded._id], loaded, doc))
  ELSE Put(store, doc)

\* await task.save() on a document loaded by findOne: an update of the stored
\* document with the paths the handler modified; it never inserts, so a save of
\* a document deleted since it was loaded leaves the store as it is.
SaveLoaded(store, loaded, doc) ==
  IF loaded._id \in DOMAIN store
  THEN Put(store, Merge(store[loaded._id], loaded, doc))
  ELSE store

UpdatedResponse(task) ==
  [status |-> 200, success |-> TRUE, message |-> "Task updated successfully",
   data |-> task]

\* PUT /tasks/:id
UpdateTask(store, next, caller, id, body) ==
  LET task == FindOne(store, id, caller)
  IN IF task = Null
     THEN Outcome(store, next, NotFoundResponse)
     ELSE LET u == UpdateFields(task, body)
          IN IF ~u.ok \/ ~ValidTask(u.task)
             THEN Outcome(store, next, ErrorResponse)
             ELSE Outcome(SaveLoaded(store, task, u.task), next,
                          UpdatedResponse(u.task))

\* Mutant of FindOneAndDelete: the document found but not removed.
FindOneKeeps(store, id, caller) ==
  [task |-> FindOne(store, id, caller), store |-> store]

\* Task.findOneAndDelete({ _id: id, user: caller }): one store operation that
\* removes the document it matches and yields it, or Null.
FindOneAndDelete(store, id, caller) ==
  LET task == FindOne(store, id, caller)
  IN [task |-> task, store |-> IF task = Null THEN store ELSE Remove(store, id)]

DeletedResponse ==
  [status |-> 200, success |-> TRUE, message |-> "Task deleted successfully"]

\* DELETE /tasks/:id
DeleteTask(store, next, caller, id) ==
  LET d == FindOneAndDelete(store, id, caller)
  IN IF d.task = Null
     THEN Outcome(d.store, next, NotFoundResponse)
     ELSE Outcome(d.store, next, DeletedResponse)

\* Mutant of Flip: the flag set rather than negated.
FlipSetsTrue(task) == [task EXCEPT !.completed = Bool(TRUE)]

\* PATCH /tasks/:id/toggle, line 177: task.completed = !task.completed
Flip(task) == [task EXCEPT !.completed = Bool(~Truthy(@))]

ToggledResponse(task) ==
  [status |-> 200, success |-> TRUE,
   message |-> IF Truthy(task.completed)
               THEN "Task marked as completed" ELSE "Task marked as incomplete",
   data |-> task]

\* PATCH /tasks/:id/toggle
ToggleTask(store, next, caller, id) ==
  LET task == FindOne(store, id, caller)
  IN IF task = Null
     THEN Outcome(store, next, NotFoundResponse)
     ELSE LET t == Flip(task)
          IN IF ~ValidTask(t)
             THEN Outcome(store, next, ErrorResponse)
             ELSE Outcome(SaveLoaded(store, task, t), next, ToggledResponse(t))

-----------------------------------------------------------------------------
\* Requests

NoBody ==
  [title |-> Undef, description |-> Undef, dueDate |-> Undef,
   priority |-> Undef, completed |-> Undef, user |-> Undef]

NoQuery == [priority |-> Undef, completed |-> Undef, sortBy |-> Undef, order |-> Undef]

\* Values a request can carry in each field: absent, null, empty, blank,
\* padded, plain, ill-formed, of another type.
TitleInputs ==
  { Undef, Null, Str(<<>>), Str(<<" ">>), Str(<<" ", "a", " ">>), Str(<<"b">>),
    Bool(TRUE) }
DescriptionInputs == {Undef, Null, Str(<<>>), Str(<<" ", "d">>), Bool(TRUE)}
DueDateInputs == {Undef, Null, Str(<<>>), Str(<<"2", "0", "2", "5">>), Str(<<"x">>)}
PriorityInputs == {Undef, Null, Str(<<>>), HIGH, URGENT}
CompletedInputs == {Undef, Null, Bool(TRUE), Bool(FALSE)}
OwnerInputs == {Undef, U2}

\* Every body over those values.
AllBodies ==
  { [title |-> t, description |-> d, dueDate |-> u, priority |-> p,
     completed |-> c, user |-> o] :
      t \in TitleInputs, d \in DescriptionInputs, u \in DueDateInputs,
      p \in PriorityInputs, c \in CompletedInputs, o \in OwnerInputs }

\* The fields a body has.
Present(b) ==
  { f \in {"title", "description", "dueDate", "priority", "completed", "user"} :
      b[f] # Undef }

\* Every body with at most two fields.
Bodies == { b \in AllBodies : Cardinality(Present(b)) <= 2 }

\* Every query over the values the list handler tells apart.
AllQueries ==
  { [priority |-> p, completed |-> c, sortBy |-> s, order |-> o] :
      p \in {Undef, ALL, Str(<<>>), HIGH, MEDIUM, URGENT},
      c \in {Undef, ALL, TRUESTR, FALSESTR, Str(<<>>)},
      s \in {Undef, CREATEDAT, COMPLETED},
      o \in {Undef, ASC, DESC} }

-----------------------------------------------------------------------------
\* State

VARIABLES
  tasks,    \* the Task collection: identifier -> document
  nextId,   \* the identifier the store assigns next
  owner,    \* history: identifier -> identity of the caller whose create made it
  deleted,  \* history: identifiers whose delete has succeeded
  req,      \* the request being answered: route, caller, :id, body, query
  resp,     \* the response to it
  inflight  \* requests running concurrently (SpecConc): slot -> request state

vars == <<tasks, nextId, owner, deleted, req, resp, inflight>>

Request(op, caller, id, body, query) ==
  [op |-> op, caller |-> caller, id |-> id, body |-> body, query |-> query]

NoRequest == Request("none", Undef, 0, NoBody, NoQuery)
NoResponse == [status |-> 0]

\* Slots for the requests that run concurrently.
Slots == 1..MaxRequests

\* A slot no request has taken yet.
Free == [pc |-> "free"]

\* No request is being answered.
Idle == req = NoRequest

Init ==
  /\ tasks = <<>>
  /\ nextId = 1
  /\ owner = <<>>
  /\ deleted = {}
  /\ req = NoRequest
  /\ resp = NoResponse
  /\ inflight = [r \in Slots |-> Free]

\* GET /tasks
List(c, q) ==
  /\ Idle
  /\ resp' \in ListTasks(tasks, c, q)
  /\ req' = Request("list", c, 0, NoBody, q)
  /\ UNCHANGED <<tasks, nextId, owner, deleted, inflight>>

\* GET /tasks/:id
Get(c, id) ==
  /\ Idle
  /\ resp' = GetTask(tasks, c, id)
  /\ req' = Request("get", c, id, NoBody, NoQuery)
  /\ UNCHANGED <<tasks, nextId, owner, deleted, inflight>>

\* POST /tasks
Create(c, body) ==
  /\ Idle
  /\ nextId <= MaxTasks
  /\ LET o == CreateTask(tasks, nextId, c, body)
     IN /\ tasks' = o.tasks
        /\ nextId' = o.nextId
        /\ resp' = o.res
        /\ owner' = IF o.res.status = 201
                    THEN [i \in (DOMAIN owner) \cup {nextId} |->
                            IF i = nextId THEN c ELSE owner[i]]
                    ELSE owner
  /\ req' = Request("create", c, 0, body, NoQuery)
  /\ UNCHANGED <<deleted, inflight>>

\* PUT /tasks/:id
Update(c, id, body) ==
  /\ Idle
  /\ LET o == UpdateTask(tasks, nextId, c, id, body)
     IN tasks' = o.tasks /\ resp' = o.res
  /\ req' = Request("update", c, id, body, NoQuery)
  /\ UNCHANGED <<nextId, owner, deleted, inflight>>

\* DELETE /tasks/:id
Delete(c, id) ==
  /\ Idle
  /\ LET o == DeleteTask(tasks, nextId, c, id)
     IN /\ tasks' = o.tasks
        /\ resp' = o.res
        /\ deleted' = IF o.res.status = 200 THEN deleted \cup {id} ELSE deleted
  /\ req' = Request("delete", c, id, NoBody, NoQuery)
  /\ UNCHANGED <<nextId, owner, inflight>>

\* PATCH /tasks/:id/toggle
Toggle(c, id) ==
  /\ Idle
  /\ LET o == ToggleTask(tasks, nextId, c, id)
     IN tasks' = o.tasks /\ resp' = o.res
  /\ req' = Request("toggle", c, id, NoBody, NoQuery)
  /\ UNCHANGED <<nextId, owner, deleted, inflight>>

\* The response has gone out; the server takes the next request.
Done ==
  /\ ~Idle
  /\ req' = NoRequest
  /\ resp' = NoResponse
  /\ UNCHANGED <<tasks, nextId, owner, deleted, inflight>>

-----------------------------------------------------------------------------
\* Spec: requests answered one after another; bodies that carry a title, a
\* completed flag and an owner-like field; queries that filter on completed.

CreateBodies == { b \in AllBodies : Present(b) \subseteq {"title", "user"} }

UpdateBodies ==
  { b \in AllBodies : Present(b) \subseteq {"title", "completed", "user"} }

Queries == { q \in AllQueries : q.priority = Undef }

Next ==
  \/ \E c \in Users, q \in Queries : List(c, q)
  \/ \E c \in Users, id \in TaskIds : Get(c, id)
  \/ \E c \in Users, body \in CreateBodies : Create(c, body)
  \/ \E c \in Users, id \in TaskIds, body \in UpdateBodies : Update(c, id, body)
  \/ \E c \in Users, id \in TaskIds : Delete(c, id)
  \/ \E c \in Users, id \in TaskIds : Toggle(c, id)
  \/ Done

Spec == Init /\ [][Next]_vars

-----------------------------------------------------------------------------
\* SpecList: requests answered one after another; bodies that carry a
\* priority; queries over every filter and sort parameter.

ListCreateBodies ==
  { b \in AllBodies :
      Present(b) \subseteq {"title", "priority"} /\ b.title \in {Undef, Str(<<"b">>)} }

ListUpdateBodies == { b \in AllBodies : Present(b) \subseteq {"priority"} }

NextList ==
  \/ \E c \in Users, q \in AllQueries : List(c, q)
  \/ \E c \in Users, id \in TaskIds : Get(c, id)
  \/ \E c \in Users, body \in ListCreateBodies : Create(c, body)
  \/ \E c \in Users, id \in TaskIds, body \in ListUpdateBodies : Update(c, id, body)
  \/ \E c \in Users, id \in TaskIds : Delete(c, id)
  \/ \E c \in Users, id \in TaskIds : Toggle(c, id)
  \/ Done

SpecList == Init /\ [][NextList]_vars

-----------------------------------------------------------------------------
\* SpecFields: requests of one caller answered one after another; bodies that
\* carry a description, a due date and a priority.

FieldCreateBodies ==
  { b \in Bodies :
      /\ Present(b) \subseteq {"title", "description", "dueDate", "priority"}
      /\ b.title \in {Undef, Str(<<" ">>), Str(<<" ", "a", " ">>)}
      /\ b.dueDate # Str(<<"x">>)
      /\ b.priority # URGENT }

FieldUpdateBodies ==
  { b \in Bodies : Present(b) \subseteq {"description", "dueDate", "priority"} }

NextFields ==
  \/ List(U1, NoQuery)
  \/ \E id \in TaskIds : Get(U1, id)
  \/ \E body \in FieldCreateBodies : Create(U1, body)
  \/ \E id \in TaskIds, body \in FieldUpdateBodies : Update(U1, id, body)
  \/ \E id \in TaskIds : Delete(U1, id)
  \/ Done

SpecFields == Init /\ [][NextFields]_vars

-----------------------------------------------------------------------------
\* Properties checked under Spec

NotFound(res) == res.status = 404 /\ res.success = FALSE

\* C1 (ownership isolation): for every stored Task and every caller who is not
\* its owner, get, update (with any body), delete and toggle of that Task
\* answer 404 with success = false and leave the store exactly as it was.
C1_OwnershipIsolation ==
  Idle =>
    \A id \in DOMAIN tasks : \A c \in Users \ {tasks[id].user} :
      /\ NotFound(GetTask(tasks, c, id))
      /\ \A b \in Bodies :
           LET o == UpdateTask(tasks, nextId, c, id, b)
           IN NotFound(o.res) /\ o.tasks = tasks
      /\ LET o == DeleteTask(tasks, nextId, c, id)
         IN NotFound(o.res) /\ o.tasks = tasks
      /\ LET o == ToggleTask(tasks, nextId, c, id)
         IN NotFound(o.res) /\ o.tasks = tasks

\* A caller's update of another owner's Task, with a title and a completed
\* flag in the body, was answered 404, and the Task is stored as it was made.
C1_Witness ==
  /\ req.op = "update"
  /\ req.body.title = Str(<<"b">>) /\ req.body.completed = Bool(TRUE)
  /\ req.id \in DOMAIN tasks
  /\ tasks[req.id].user # req.caller
  /\ tasks[req.id].title = Str(<<"a">>) /\ tasks[req.id].completed = Bool(FALSE)
  /\ resp.status = 404

\* C2 (owner invariant): every stored Task has the identifier it was stored
\* under and one owner, the identity of the caller whose create produced it,
\* whatever owner-like field the create body carried and whatever updates and
\* toggles followed; a create that succeeds returns a Task owned by the caller.
C2_OwnerInvariant ==
  /\ \A id \in DOMAIN tasks :
       /\ id \in DOMAIN owner
       /\ tasks[id].user = owner[id]
       /\ tasks[id].user \in Users
       /\ tasks[id]._id = id
  /\ Idle =>
       \A c \in Users, b \in Bodies :
         LET o == CreateTask(tasks, nextId, c, b)
         IN o.res.status = 201 => o.res.data.user = c /\ o.tasks[nextId].user = c

\* A Task that u1 created, then u1 updated with a body naming u2 as its user,
\* is still u1's.
C2_Witness ==
  /\ req.op = "update"
  /\ req.caller = U1
  /\ req.body.user = U2
  /\ resp.status = 200
  /\ owner[req.id] = U1
  /\ tasks[req.id].user = U1

Blank(v) == v.t = "string" /\ Trim(v.s) = <<>>

Not(v) == Bool(~Truthy(v))

ToggleMessage(v) ==
  IF v = Bool(TRUE) THEN "Task marked as completed" ELSE "Task marked as incomplete"

\* C4 (toggle is an involution): for every stored Task, two consecutive toggles
\* by its owner both answer 200 and leave completed as it was before the first;
\* each returns the Task with completed negated, and the message says
\* "completed" exactly when the new value is true.
C4_ToggleInvolution ==
  \A id \in DOMAIN tasks :
    LET c == tasks[id].user
        o1 == ToggleTask(tasks, nextId, c, id)
        o2 == ToggleTask(o1.tasks, nextId, c, id)
    IN /\ o1.res.status = 200 /\ o1.res.success
       /\ o2.res.status = 200 /\ o2.res.success
       /\ o1.res.data.completed = Not(tasks[id].completed)
       /\ o1.tasks[id].completed = Not(tasks[id].completed)
       /\ o2.res.data.completed = Not(o1.tasks[id].completed)
       /\ o2.tasks[id].completed = tasks[id].completed
       /\ o1.res.message = ToggleMessage(o1.res.data.completed)
       /\ o2.res.message = ToggleMessage(o2.res.data.completed)

\* A toggle brought a Task back to incomplete.
C4_Witness ==
  /\ req.op = "toggle"
  /\ resp.status = 200
  /\ resp.message = "Task marked as incomplete"
  /\ resp.data.completed = Bool(FALSE)
  /\ tasks[req.id].completed = Bool(FALSE)

\* C5 (delete is final and repeatable): a Task whose delete has succeeded is
\* not stored; every delete, get, update and toggle of its identifier answers
\* 404; no list returns it; and a delete of an identifier that was never
\* assigned answers 404.
C5_DeleteFinal ==
  /\ \A id \in deleted : id \notin DOMAIN tasks
  /\ Idle =>
       /\ \A id \in deleted : \A c \in Users :
            /\ DeleteTask(tasks, nextId, c, id).res = NotFoundResponse
            /\ NotFound(GetTask(tasks, c, id))
            /\ NotFound(ToggleTask(tasks, nextId, c, id).res)
            /\ \A b \in Bodies : NotFound(UpdateTask(tasks, nextId, c, id, b).res)
            /\ \A q \in Queries : \A r \in ListTasks(tasks, c, q) :
                 \A i \in DOMAIN r.data : r.data[i]._id # id
       /\ \A id \in TaskIds : \A c \in Users :
            id >= nextId => DeleteTask(tasks, nextId, c, id).res = NotFoundResponse

\* A delete of an identifier already deleted, by the Task's former owner, was
\* answered 404.
C5_Witness ==
  /\ req.op = "delete"
  /\ req.id \in deleted
  /\ req.caller = owner[req.id]
  /\ resp = NotFoundResponse

\* One step of the completion state machine: a Task enters the store
\* incomplete, by a create; a stored Task's completed changes only in the step
\* of a toggle of that Task answered 200, which negates it, or of an update of
\* that Task answered 200 whose body has a completed, which sets it to that.
CompletionStep ==
  /\ \A id \in (DOMAIN tasks') \ DOMAIN tasks :
       req'.op = "create" /\ resp'.status = 201 /\ tasks'[id].completed = Bool(FALSE)
  /\ \A id \in (DOMAIN tasks) \cap DOMAIN tasks' :
       tasks'[id].completed # tasks[id].completed =>
         /\ req'.id = id
         /\ resp'.status = 200
         /\ \/ req'.op = "toggle" /\ tasks'[id].completed = Not(tasks[id].completed)
            \/ /\ req'.op = "update"
               /\ req'.body.completed # Undef
               /\ tasks'[id].completed = req'.body.completed

\* What an update does to completed, for every stored Task and body: left as it
\* was when the body has no completed or the update fails, set to the body's
\* value when the body has one and the update succeeds.
CompletionUpdate ==
  Idle =>
    \A id \in DOMAIN tasks : \A b \in Bodies :
      LET o == UpdateTask(tasks, nextId, tasks[id].user, id, b)
      IN /\ b.completed = Undef => o.tasks[id].completed = tasks[id].completed
         /\ o.res.status # 200 => o.tasks = tasks
         /\ b.completed # Undef /\ o.res.status = 200 =>
              o.tasks[id].completed = b.completed

-----------------------------------------------------------------------------
\* Properties checked under SpecList

\* The completed values the claim speaks of.
ClaimedCompleted == {Undef, ALL, TRUESTR, FALSESTR}

\* The completed filter: omitted or 'all' keeps both states, 'true' keeps the
\* completed Tasks, 'false' the incomplete ones.
CompletedKeeps(task, q) ==
  \/ q.completed \in {Undef, ALL}
  \/ q.completed = TRUESTR /\ task.completed = Bool(TRUE)
  \/ q.completed = FALSESTR /\ task.completed = Bool(FALSE)

\* The priority filter as claimed: omitted or 'all' keeps every priority, any
\* other value keeps the Tasks of exactly that priority.
PriorityKeepsClaimed(task, q) ==
  q.priority \in {Undef, ALL} \/ task.priority = q.priority

\* The priority filter as amended: an empty priority restricts nothing either.
PriorityKeeps(task, q) ==
  q.priority \in {Undef, ALL, Str(<<>>)} \/ task.priority = q.priority

\* The response to the list request being answered is a success whose data
\* are exactly the caller's Tasks that pass both filters, each once, and whose
\* count is their number.
ListAnswer(PriorityFilter(_, _)) ==
  req.op = "list" /\ req.query.completed \in ClaimedCompleted =>
    LET ids == { i \in DOMAIN tasks :
                   /\ tasks[i].user = req.caller
                   /\ PriorityFilter(tasks[i], req.query)
                   /\ CompletedKeeps(tasks[i], req.query) }
    IN /\ resp.status = 200 /\ resp.success
       /\ resp.count = Len(resp.data)
       /\ resp.count = Cardinality(ids)
       /\ {resp.data[i] : i \in DOMAIN resp.data} = {tasks[i] : i \in ids}

\* C6 as claimed (list result set): list returns exactly the caller's Tasks
\* that pass the filters, priority omitted or 'all' being the only values that
\* impose no priority restriction.
C6_ListAsClaimed == ListAnswer(PriorityKeepsClaimed)

\* C6 as amended (list result set): list returns exactly the caller's Tasks
\* that pass the filters, with count their number; priority omitted, empty or
\* 'all' imposes no priority restriction and any other value keeps the Tasks
\* of exactly that priority; completed omitted or 'all' keeps both states,
\* 'true' the completed Tasks, 'false' the incomplete ones.  No Task of
\* another owner is returned and an empty match is a success with count 0.
C6_ListResultSet == ListAnswer(PriorityKeeps)

\* A list with priority 'high' and completed 'false' returned one of the two
\* Tasks its caller owns.
C6_Witness ==
  /\ req.op = "list"
  /\ req.query.priority = HIGH /\ req.query.completed = FALSESTR
  /\ resp.status = 200
  /\ resp.count = 1
  /\ Cardinality({ i \in DOMAIN tasks : tasks[i].user = req.caller }) = 2

-----------------------------------------------------------------------------
\* Properties checked under SpecFields

\* C8 (update frame): for every stored Task and every body, an update by the
\* owner that answers 200 leaves in the store, and returns, the Task with
\* exactly the fields present in the body overwritten (title and description
\* by the trimmed value, dueDate by the parsed date or by null when the value
\* is falsy, priority and completed by the value itself), every absent field,
\* the owner and the identifier as they were, and every other Task untouched.
C8_UpdateFrame ==
  Idle =>
    \A id \in DOMAIN tasks : \A b \in Bodies :
      LET old == tasks[id]
          o == UpdateTask(tasks, nextId, old.user, id, b)
      IN o.res.status = 200 =>
           /\ DOMAIN o.tasks = DOMAIN tasks
           /\ \A j \in (DOMAIN tasks) \ {id} : o.tasks[j] = tasks[j]
           /\ o.res.data = o.tasks[id]
           /\ LET new == o.tasks[id]
              IN /\ new.user = old.user /\ new._id = old._id
                 /\ new.createdAt = old.createdAt
                 /\ new.title = IF b.title = Undef THEN old.title
                                ELSE Str(Trim(b.title.s))
                 /\ new.description = IF b.description = Undef THEN old.description
                                      ELSE Str(Trim(b.description.s))
                 /\ new.dueDate = IF b.dueDate = Undef THEN old.dueDate
                                  ELSE IF Truthy(b.dueDate) THEN NewDate(b.dueDate)
                                  ELSE Null
                 /\ new.priority = IF b.priority = Undef THEN old.priority
                                   ELSE b.priority
                 /\ new.completed = IF b.completed = Undef THEN old.completed
                                    ELSE b.completed

\* An update with an empty description and a null dueDate was answered 200
\* for a Task that keeps its priority 'high' and now has an empty description
\* and no due date, while another Task with a due date is stored.
C8_Witness ==
  /\ req.op = "update"
  /\ req.body.description = Str(<<>>) /\ req.body.dueDate = Null
  /\ req.body.priority = Undef
  /\ resp.status = 200
  /\ resp.data.description = Str(<<>>)
  /\ resp.data.dueDate = Null
  /\ resp.data.priority = HIGH
  /\ tasks[req.id] = resp.data
  /\ \E j \in (DOMAIN tasks) \ {req.id} : tasks[j].dueDate.t = "date"

TitleMissing(b) == b.title \in {Undef, Null} \/ Blank(b.title)

\* A create was answered 400 and left store as it was.
Rejected(store, store2, res) ==
  /\ res.status = 400 /\ res.success = FALSE
  /\ store2 = store

\* A create by c with body b was answered 201 and left in store2 the Tasks of
\* store and exactly one more: the trimmed title, incomplete, owned by c.
Added(c, b, store, store2, res) ==
  /\ res.status = 201 /\ res.success
  /\ DOMAIN store \subseteq DOMAIN store2
  /\ Cardinality((DOMAIN store2) \ DOMAIN store) = 1
  /\ \A j \in DOMAIN store : store2[j] = store[j]
  /\ \A j \in (DOMAIN store2) \ DOMAIN store :
       /\ store2[j].title = Str(Trim(b.title.s))
       /\ store2[j].completed = Bool(FALSE)
       /\ store2[j].user = c
       /\ res.data = store2[j]

\* The title of a body is a string that is non-empty after trimming.
TitleAccepted(b) == b.title.t = "string" /\ ~Blank(b.title)

\* The optional fields of a body are ones the handler and the schema accept: a
\* description that is falsy or a string, a dueDate that is falsy or parses, a
\* priority that is falsy or of the enumeration.
OptionalFieldsAccepted(b) ==
  /\ Truthy(b.description) => b.description.t = "string"
  /\ Truthy(b.dueDate) => NewDate(b.dueDate) # InvalidDate
  /\ Truthy(b.priority) => b.priority \in Priorities

\* C7 as claimed (create validation): every create whose title is absent or
\* empty after trimming is answered 400 and leaves the store unchanged; every
\* create with a non-blank title is answered 201 and adds exactly one Task.
C7_CreateAsClaimed ==
  [][req'.op = "create" =>
       /\ TitleMissing(req'.body) => Rejected(tasks, tasks', resp')
       /\ ~TitleMissing(req'.body) =>
            Added(req'.caller, req'.body, tasks, tasks', resp')]_vars

\* C7 as amended (create validation): a create whose title is absent or empty
\* after trimming answers 400 and leaves the store unchanged; a create whose
\* title is a string non-empty after trimming and whose optional fields are
\* acceptable answers 201 and adds exactly one Task, with the trimmed title,
\* incomplete, owned by the caller; a create that is not answered 201 leaves
\* the store unchanged.
\* Stated of every create the server answers, and of every body on every
\* store the server can hold.
C7_CreateValidation ==
  /\ [][req'.op = "create" =>
          /\ TitleMissing(req'.body) => Rejected(tasks, tasks', resp')
          /\ TitleAccepted(req'.body) /\ OptionalFieldsAccepted(req'.body) =>
               Added(req'.caller, req'.body, tasks, tasks', resp')
          /\ resp'.status # 201 => tasks' = tasks]_vars
  /\ [](Idle =>
          \A c \in Users : \A b \in Bodies :
            LET o == CreateTask(tasks, nextId, c, b)
            IN /\ TitleMissing(b) => Rejected(tasks, o.tasks, o.res)
               /\ TitleAccepted(b) /\ OptionalFieldsAccepted(b) =>
                    Added(c, b, tasks, o.tasks, o.res)
               /\ o.res.status # 201 => o.tasks = tasks)

\* A create with a blank title was answered 400 while a Task created earlier
\* is stored.
C7_Witness ==
  /\ req.op = "create"
  /\ req.body.title = Str(<<" ">>)
  /\ resp.status = 400
  /\ \E id \in DOMAIN tasks : tasks[id].title = Str(<<"a">>)

-----------------------------------------------------------------------------
\* SpecConc: delete, update and toggle requests that overlap.  A handler runs
\* without interruption between two awaits, so a request is a sequence of steps
\* that ends at each await: DELETE awaits one store operation
\* (findOneAndDelete); PUT and PATCH await the lookup (findOne) and then the
\* save.  Steps of different requests interleave in any order.

\* A request that has been received and awaits its first store operation.
Admitted(op, c, id, body, live) ==
  [pc |-> "new", op |-> op, caller |-> c, id |-> id, body |-> body,
   live |-> live, task |-> Null, stale |-> FALSE, res |-> NoResponse]

\* The first slot no request has taken.
FreeSlot(r) ==
  /\ inflight[r] = Free
  /\ \A q \in Slots : q < r => inflight[q] # Free

\* A DELETE, PUT or PATCH request arrives.  live records whether the caller
\* owned a stored Task under the identifier when the request arrived.
Admit(op, c, id, body) ==
  /\ Idle
  /\ \E r \in Slots :
       /\ FreeSlot(r)
       /\ inflight' =
            [inflight EXCEPT
               ![r] = Admitted(op, c, id, body, FindOne(tasks, id, c) # Null)]
  /\ UNCHANGED <<tasks, nextId, owner, deleted, req, resp>>

\* The request in slot r has answered.
Answered(r, res, stale) ==
  [inflight EXCEPT ![r].pc = "done", ![r].res = res, ![r].stale = stale]

\* DELETE /tasks/:id: the store runs findOneAndDelete and the handler answers.
DeleteStep(r) ==
  /\ inflight[r].pc = "new" /\ inflight[r].op = "delete"
  /\ LET o == DeleteTask(tasks, nextId, inflight[r].caller, inflight[r].id)
     IN /\ tasks' = o.tasks
        /\ deleted' = IF o.res.status = 200
                      THEN deleted \cup {inflight[r].id} ELSE deleted
        /\ inflight' = Answered(r, o.res, FALSE)
  /\ UNCHANGED <<nextId, owner, req, resp>>

\* PUT /tasks/:id and PATCH /tasks/:id/toggle: the store runs findOne; the
\* handler answers 404 or goes on to the save with the document it loaded.
FindStep(r) ==
  /\ inflight[r].pc = "new" /\ inflight[r].op \in {"update", "toggle"}
  /\ LET task == FindOne(tasks, inflight[r].id, inflight[r].caller)
     IN inflight' =
          IF task = Null
          THEN Answered(r, NotFoundResponse, FALSE)
          ELSE [inflight EXCEPT ![r].pc = "found", ![r].task = task]
  /\ UNCHANGED <<tasks, nextId, owner, deleted, req, resp>>

\* The document the handler saves: [ok, task], ok FALSE when the handler or the
\* validation throws.
Modified(slot) ==
  IF slot.op = "update"
  THEN LET u == UpdateFields(slot.task, slot.body)
       IN [ok |-> u.ok /\ ValidTask(u.task), task |-> u.task]
  ELSE LET t == Flip(slot.task)
       IN [ok |-> ValidTask(t), task |-> t]

\* The success response of the handler.
SavedResponse(slot, task) ==
  IF slot.op = "update" THEN UpdatedResponse(task) ELSE ToggledResponse(task)

\* PUT /tasks/:id and PATCH /tasks/:id/toggle: the handler modifies the document
\* it loaded, the store runs the save and the handler answers.  A save of a
\* document deleted since the lookup either resolves or rejects.
SaveStep(r) ==
  /\ inflight[r].pc = "found"
  /\ LET slot == inflight[r]
         m == Modified(slot)
     IN IF ~m.ok
        THEN /\ tasks' = tasks
             /\ inflight' = Answered(r, ErrorResponse, FALSE)
        ELSE /\ tasks' = SaveLoaded(tasks, slot.task, m.task)
             /\ IF slot.id \in DOMAIN tasks
                THEN inflight' = Answered(r, SavedResponse(slot, m.task), FALSE)
                ELSE \E res \in {SavedResponse(slot, m.task), ErrorResponse} :
                       inflight' = Answered(r, res, TRUE)
  /\ UNCHANGED <<nextId, owner, deleted, req, resp>>

ConcCreateBodies ==
  { b \in AllBodies : Present(b) = {"title"} /\ b.title = Str(<<"b">>) }

ConcUpdateBodies ==
  { b \in AllBodies : Present(b) = {"completed"} /\ b.completed = Bool(TRUE) }

NextConc ==
  \/ \E c \in Users, body \in ConcCreateBodies : Create(c, body)
  \/ Done
  \/ \E c \in Users, id \in TaskIds : Admit("delete", c, id, NoBody)
  \/ \E c \in Users, id \in TaskIds, body \in ConcUpdateBodies :
       Admit("update", c, id, body)
  \/ \E c \in Users, id \in TaskIds : Admit("toggle", c, id, NoBody)
  \/ \E r \in Slots : DeleteStep(r)
  \/ \E r \in Slots : FindStep(r)
  \/ \E r \in Slots : SaveStep(r)

SpecConc == Init /\ [][NextConc]_vars

\* The delete requests for Task id, and those of them that have answered.
DeletesOf(id) ==
  { r \in Slots :
      inflight[r] # Free /\ inflight[r].op = "delete" /\ inflight[r].id = id }

AnsweredDeletesOf(id) == { r \in DeletesOf(id) : inflight[r].pc = "done" }

\* C9: of the delete requests for one Task, at most one answers success and
\* every other answers 404, and once a delete request that arrived while its
\* caller owned the Task has answered, one has answered success; and a Task
\* deleted between the lookup and the save of an update or toggle is not in the
\* store once that save has run.
C9_AtomicDelete ==
  /\ \A id \in TaskIds :
       LET successes ==
             { r \in AnsweredDeletesOf(id) : inflight[r].res = DeletedResponse }
       IN /\ Cardinality(successes) <= 1
          /\ \A r \in AnsweredDeletesOf(id) :
               inflight[r].res \in {DeletedResponse, NotFoundResponse}
          /\ (\E r \in AnsweredDeletesOf(id) : inflight[r].live)
               => Cardinality(successes) = 1
  /\ \A r \in Slots :
       (inflight[r] # Free /\ inflight[r].stale)
         => inflight[r].id \notin DOMAIN tasks

\* Two delete requests for one Task overlapped with an update or toggle of it
\* that loaded the Task before and saved it after the deletion, and all three
\* have answered.
C9_Witness ==
  \E id \in TaskIds :
    /\ Cardinality({ r \in AnsweredDeletesOf(id) : inflight[r].live }) = 2
    /\ \E r \in Slots :
         /\ inflight[r] # Free /\ inflight[r].id = id
         /\ inflight[r].pc = "done" /\ inflight[r].stale
         /\ inflight[r].res.status = 200
====
